---- MODULE Spec2Model ----
(***************************************************************************)
(* A model of the Web_Scraper pipeline: robots.txt gate, content-selector  *)
(* extraction, markdown cleaning, header/size chunking, chunk filtering,   *)
(* JSON persistence, and the RAGProcessor vector-store lifecycle.          *)
(*                                                                         *)
(* Text is modelled as it is in the program: a string is a sequence of     *)
(* one-character strings, and every regular expression, strip, split and   *)
(* join is computed character by character.                                *)
(***************************************************************************)
EXTENDS Integers, Sequences, FiniteSets, TLC

VARIABLES
    \* clean_markdown_content applied to one input
    cm_pc, cm_in, cm_out,
    \* scrape_and_process_url applied to one site
    s_pc, s_site, s_ret,
    \* a RAGProcessor under arbitrary calls: self.vector_store, the directory
    \* at VECTOR_STORE_PATH, the last call and the number of calls made
    r_store, r_disk, r_last, r_calls,
    \* run_enhanced_scraper: its position, its locals, the files of OUTPUT_DIR,
    \* the RAGProcessor's store and the directory at VECTOR_STORE_PATH
    pc, url_index, all_chunks, successful_scrapes, failed_scrapes, total_chunks,
    processed_chunks, url_files, summary_file, combined_file,
    vector_store, disk_store, query_index, result,
    \* history: the URLs handled so far, and what phase 2 attempted
    processed, did,
    \* the browser sessions of a run, step by step: the position in
    \* scrape_and_process_url, the URL in hand, the sessions open, whether an
    \* exception is on its way out of the with block, and what each URL did
    b_pc, b_url, b_sessions, b_raised, b_log

cleanVars == <<cm_pc, cm_in, cm_out>>
scrapeVars == <<s_pc, s_site, s_ret>>
ragVars == <<r_store, r_disk, r_last, r_calls>>
runVars ==
    <<pc, url_index, all_chunks, successful_scrapes, failed_scrapes, total_chunks,
      processed_chunks, url_files, summary_file, combined_file,
      vector_store, disk_store, query_index, result, processed, did>>
browserVars == <<b_pc, b_url, b_sessions, b_raised, b_log>>
vars == <<cleanVars, scrapeVars, ragVars, runVars, browserVars>>

\* Each specification runs one part of the program; the others stay idle.
CleanIdle == cm_pc = "idle" /\ cm_in = <<>> /\ cm_out = <<>>

ScrapeIdle == s_pc = "idle" /\ s_site = <<>> /\ s_ret = <<>>

RagIdle == r_store = <<>> /\ r_disk = <<>> /\ r_last = <<>> /\ r_calls = 0

BrowserIdle ==
    /\ b_pc = "idle" /\ b_url = 0 /\ b_sessions = {} /\ b_raised = FALSE /\ b_log = <<>>

RunIdle ==
    /\ pc = "idle" /\ url_index = 0 /\ all_chunks = <<>>
    /\ successful_scrapes = 0 /\ failed_scrapes = 0 /\ total_chunks = 0
    /\ processed_chunks = <<>> /\ url_files = <<>> /\ summary_file = <<>>
    /\ combined_file = <<>> /\ vector_store = <<>> /\ disk_store = <<>>
    /\ query_index = 0 /\ result = "none" /\ processed = <<>> /\ did = <<>>

(***************************************************************************)
(* Characters and elementary string operations (Python str semantics).     *)
(***************************************************************************)
NL == "\n"
SP == " "

\* str.isspace() for the characters the model uses (Python's \s class).
IsSpace(c) == c \in {" ", "\n", "\t", "\r", "\f"}

\* The characters of the model that Python's \w matches.
WordChars ==
    { "a", "b", "e", "h", "i", "k", "m", "n", "o", "p", "s", "t", "u", "v",
      "A", "N", "T", "U", "V", "_" }
IsWord(c) == c \in WordChars

\* str.lower() on one character.
LowerChar(c) ==
    CASE c = "N" -> "n"
      [] c = "A" -> "a"
      [] c = "V" -> "v"
      [] c = "T" -> "t"
      [] c = "U" -> "u"
      [] OTHER -> c

Lower(s) == [i \in 1..Len(s) |-> LowerChar(s[i])]

RECURSIVE LStrip(_)
LStrip(s) == IF s = <<>> \/ ~IsSpace(Head(s)) THEN s ELSE LStrip(Tail(s))

RECURSIVE RStrip(_)
RStrip(s) ==
    IF s = <<>> \/ ~IsSpace(s[Len(s)]) THEN s ELSE RStrip(SubSeq(s, 1, Len(s) - 1))

\* str.strip()
Strip(s) == RStrip(LStrip(s))

\* str.startswith(p)
StartsWith(s, p) == Len(s) >= Len(p) /\ SubSeq(s, 1, Len(p)) = p

\* str.count(c) for a one-character c
Count(s, c) == Cardinality({i \in 1..Len(s) : s[i] = c})

\* The elements of s at the positions where keep is TRUE, in order.
IsKept(e) == e[2]

KeepWhere(s, keep) ==
    LET sel == SelectSeq([i \in 1..Len(s) |-> <<s[i], keep[i]>>], IsKept)
    IN  [i \in 1..Len(sel) |-> sel[i][1]]

\* re.sub(c{3,}, c * r, s) for r <= 3: every maximal run of three or more c
\* becomes r characters c, that is, a c is deleted exactly when the r
\* characters before it are c too and the run is at least three long.
ReSubRun3(s, c, r) ==
    KeepWhere(s, [i \in 1..Len(s) |->
        ~(/\ i > r
          /\ \A j \in (i - r)..i : s[j] = c
          /\ i >= 3 /\ s[i - 1] = c /\ s[i - 2] = c)])

\* re.sub(c{3}, rep, s): the regex without the open upper bound; each group of
\* exactly three c becomes rep and the scan resumes after it.
RECURSIVE ReSubExactly3(_, _, _)
ReSubExactly3(s, c, rep) ==
    IF s = <<>> THEN <<>>
    ELSE IF Len(s) >= 3 /\ s[1] = c /\ s[2] = c /\ s[3] = c
         THEN rep \o ReSubExactly3(SubSeq(s, 4, Len(s)), c, rep)
         ELSE <<Head(s)>> \o ReSubExactly3(Tail(s), c, rep)

\* str.split('\n'): the fields between newlines ('' gives ['']).
RECURSIVE SplitLines(_)
SplitLines(s) ==
    LET idx == {i \in 1..Len(s) : s[i] = NL}
    IN  IF idx = {} THEN <<s>>
        ELSE LET k == CHOOSE i \in idx : \A j \in idx : i <= j
             IN  <<SubSeq(s, 1, k - 1)>> \o SplitLines(SubSeq(s, k + 1, Len(s)))

\* '\n'.join(lines)
RECURSIVE JoinLines(_)
JoinLines(lines) ==
    IF lines = <<>> THEN <<>>
    ELSE IF Len(lines) = 1 THEN lines[1]
    ELSE lines[1] \o <<NL>> \o JoinLines(Tail(lines))

RECURSIVE Flatten(_)
Flatten(ss) == IF ss = <<>> THEN <<>> ELSE Head(ss) \o Flatten(Tail(ss))

\* s contains three consecutive characters c.
HasRun3(s, c) ==
    \E i \in 1..(Len(s) - 2) : s[i] = c /\ s[i + 1] = c /\ s[i + 2] = c

(***************************************************************************)
(* scraper.clean_markdown_content                                          *)
(***************************************************************************)
SubNewlines(s) == ReSubRun3(s, NL, 2)

SubStarsExactly3(s) == ReSubExactly3(s, "*", <<"*", "*">>)

SubStars(s) == ReSubRun3(s, "*", 2)

SubUnderscores(s) == ReSubRun3(s, "_", 2)

\* The prefixes of line 51.
NavPrefixes ==
    { <<"m", "e", "n", "u">>,
      <<"n", "a", "v">>,
      <<"s", "k", "i", "p", " ", "t", "o">>,
      <<"h", "o", "m", "e", " ", "|">>,
      <<"|", " ", "h", "o", "m", "e">> }

\* re.match(r'^[\s\|\-]+$', line) on a line without newlines.
OnlySpacePipeDash(line) ==
    /\ Len(line) >= 1
    /\ \A i \in 1..Len(line) : IsSpace(line[i]) \/ line[i] \in {"|", "-"}

\* The condition of lines 50-53 on an already stripped line.
IsNavigationLine(line) ==
    \/ Len(line) < 3
    \/ \E p \in NavPrefixes : StartsWith(Lower(line), p)
    \/ OnlySpacePipeDash(line)
    \/ Count(line, "|") > 5

RECURSIVE CleanLines(_)
CleanLines(lines) ==
    IF lines = <<>> THEN <<>>
    ELSE LET line == Strip(Head(lines))
         IN  IF IsNavigationLine(line)
             THEN CleanLines(Tail(lines))
             ELSE <<line>> \o CleanLines(Tail(lines))

clean_markdown_content(markdown_text) ==
    IF markdown_text = <<>> THEN <<>>
    ELSE JoinLines(CleanLines(SplitLines(
            SubUnderscores(SubStars(SubNewlines(markdown_text))))))

(***************************************************************************)
(* scraper.check_robots_txt.  The outcome of fetching robots.txt is an     *)
(* input; RobotFileParser.read and can_fetch behave as in urllib.          *)
(***************************************************************************)
RobotsOutcomes ==
    { "url_parse_error",   \* urlparse raises ValueError (line 16, outside the try)
      "network_error",     \* urlopen raises URLError / a timeout
      "http_401", "http_403",
      "http_404",          \* the file is missing
      "http_500",
      "decode_error",      \* the body is not UTF-8: raw.decode raises
      "malformed",         \* unparsable lines: the parser skips them, no rule is left
      "policy_allow",      \* the policy read allows '*' to fetch the URL
      "policy_disallow" }  \* the policy read disallows '*' for the URL

\* Outcomes in which no policy was obtained from the site.
RobotsFailures ==
    { "network_error", "http_401", "http_403", "http_404", "http_500",
      "decode_error", "malformed" }

\* parser.read(): the parser's flags afterwards, or an exception.
RobotFileParser_read(outcome) ==
    CASE outcome \in {"network_error", "decode_error"} ->
            [exc |-> TRUE, disallow_all |-> FALSE, allow_all |-> FALSE,
             last_checked |-> FALSE, rule |-> "none"]
      [] outcome \in {"http_401", "http_403"} ->
            [exc |-> FALSE, disallow_all |-> TRUE, allow_all |-> FALSE,
             last_checked |-> FALSE, rule |-> "none"]
      [] outcome = "http_404" ->
            [exc |-> FALSE, disallow_all |-> FALSE, allow_all |-> TRUE,
             last_checked |-> FALSE, rule |-> "none"]
      [] outcome = "http_500" ->
            [exc |-> FALSE, disallow_all |-> FALSE, allow_all |-> FALSE,
             last_checked |-> FALSE, rule |-> "none"]
      [] outcome = "malformed" ->
            [exc |-> FALSE, disallow_all |-> FALSE, allow_all |-> FALSE,
             last_checked |-> TRUE, rule |-> "none"]
      [] outcome = "policy_allow" ->
            [exc |-> FALSE, disallow_all |-> FALSE, allow_all |-> FALSE,
             last_checked |-> TRUE, rule |-> "allow"]
      [] OTHER ->
            [exc |-> FALSE, disallow_all |-> FALSE, allow_all |-> FALSE,
             last_checked |-> TRUE, rule |-> "disallow"]

\* parser.can_fetch("*", url)
RobotFileParser_can_fetch(parser) ==
    IF parser.disallow_all THEN FALSE
    ELSE IF parser.allow_all THEN TRUE
    ELSE IF ~parser.last_checked THEN FALSE
    ELSE parser.rule # "disallow"

\* [exc |-> the call raised, ret |-> is_allowed]
check_robots_txt(outcome) ==
    IF outcome = "url_parse_error" THEN [exc |-> TRUE, ret |-> FALSE]
    ELSE LET parser == RobotFileParser_read(outcome)
         IN  IF parser.exc
             THEN [exc |-> FALSE, ret |-> TRUE]
             ELSE [exc |-> FALSE, ret |-> RobotFileParser_can_fetch(parser)]

(***************************************************************************)
(* Content extraction (scraper.py lines 79-99).  A DOM gives, for each     *)
(* selector, the inner HTML of the elements it matches, in document order, *)
(* and the inner HTML of <body>.  An HTML fragment is a sequence of block  *)
(* elements [tag, text]; the empty fragment is the empty string.           *)
(***************************************************************************)
content_selectors ==
    << "article", "main", "[role=main]", "#main", "#content",
       ".main", ".content", ".post", ".entry", ".article-content",
       ".post-content", ".entry-content", ".page-content" >>

\* page.locator(selector): the matching elements' inner HTML.
Locator(dom, selector) ==
    IF selector \in DOMAIN dom.matches THEN dom.matches[selector] ELSE <<>>

\* The loop of lines 88-94 from selector index i on.
RECURSIVE SelectorLoop(_, _)
SelectorLoop(dom, i) ==
    IF i > Len(content_selectors)
    THEN [html_content |-> <<>>, selector_used |-> "None"]
    ELSE LET elements == Locator(dom, content_selectors[i])
         IN  IF Len(elements) > 0
             THEN [html_content |-> elements[1], selector_used |-> content_selectors[i]]
             ELSE SelectorLoop(dom, i + 1)

\* The loop of lines 88-94 without its break: the last matching selector wins.
RECURSIVE SelectorLoopNoBreak(_, _, _)
SelectorLoopNoBreak(dom, i, acc) ==
    IF i > Len(content_selectors) THEN acc
    ELSE LET elements == Locator(dom, content_selectors[i])
         IN  SelectorLoopNoBreak(dom, i + 1,
                IF Len(elements) > 0
                THEN [html_content |-> elements[1], selector_used |-> content_selectors[i]]
                ELSE acc)

ExtractContentNoBreak(dom) ==
    LET found == SelectorLoopNoBreak(dom, 1, [html_content |-> <<>>, selector_used |-> "None"])
    IN  IF found.html_content = <<>>
        THEN [html_content |-> dom.body, selector_used |-> "body"]
        ELSE found

\* Lines 85-99: the selector loop, then the body fallback on empty content.
ExtractContent(dom) ==
    LET found == SelectorLoop(dom, 1)
    IN  IF found.html_content = <<>>
        THEN [html_content |-> dom.body, selector_used |-> "body"]
        ELSE found

(***************************************************************************)
(* html2text: headings become '#'-prefixed lines, paragraphs plain lines,  *)
(* every block followed by a blank line.                                   *)
(***************************************************************************)
HeadingMarks(tag) ==
    CASE tag = "h1" -> <<"#", SP>>
      [] tag = "h2" -> <<"#", "#", SP>>
      [] tag = "h3" -> <<"#", "#", "#", SP>>
      [] OTHER -> <<>>

RECURSIVE Html2Text(_)
Html2Text(html) ==
    IF html = <<>> THEN <<>>
    ELSE HeadingMarks(Head(html).tag) \o Head(html).text \o <<NL, NL>>
            \o Html2Text(Tail(html))

(***************************************************************************)
(* MarkdownHeaderTextSplitter.split_text with strip_headers=False.         *)
(***************************************************************************)
\* scraper.py line 135: (separator, metadata key); level is the count of '#'.
headers_to_split_on ==
    << [sep |-> <<"#">>, name |-> "H1", level |-> 1],
       [sep |-> <<"#", "#">>, name |-> "H2", level |-> 2],
       [sep |-> <<"#", "#", "#">>, name |-> "H3", level |-> 3] >>

\* A stripped line opens with separator sep: sep, then the end or a space.
IsHeaderLine(line, sep) ==
    /\ StartsWith(line, sep)
    /\ (Len(line) = Len(sep) \/ line[Len(sep) + 1] = SP)

\* The header a line matches, longest separator first; 0 when none.
HeaderIndex(line) ==
    IF IsHeaderLine(line, headers_to_split_on[3].sep) THEN 3
    ELSE IF IsHeaderLine(line, headers_to_split_on[2].sep) THEN 2
    ELSE IF IsHeaderLine(line, headers_to_split_on[1].sep) THEN 1
    ELSE 0

Without(m, keys) == [k \in (DOMAIN m) \ keys |-> m[k]]

\* Pop every header of the stack whose level is >= level.
RECURSIVE PopHeaders(_, _)
PopHeaders(stack, level) ==
    IF stack # <<>> /\ stack[Len(stack)].level >= level
    THEN PopHeaders(SubSeq(stack, 1, Len(stack) - 1), level)
    ELSE stack

Flush(st) ==
    IF st.cur = <<>> THEN st.out
    ELSE Append(st.out, [page_content |-> JoinLines(st.cur), metadata |-> st.curmeta])

\* One iteration of split_text's loop over the lines.
HeaderLineStep(st, rawline) ==
    LET line == Strip(rawline)
        h == HeaderIndex(line)
    IN  IF h > 0
        THEN LET hd == headers_to_split_on[h]
                 kept == PopHeaders(st.stack, hd.level)
                 popped == { st.stack[j].name : j \in (Len(kept) + 1)..Len(st.stack) }
                 data == Strip(SubSeq(line, Len(hd.sep) + 1, Len(line)))
                 meta == (hd.name :> data) @@ Without(st.meta, popped)
             IN  [stack |-> Append(kept, [level |-> hd.level, name |-> hd.name]),
                  meta |-> meta,
                  cur |-> <<line>>,
                  curmeta |-> meta,
                  out |-> Flush(st)]
        ELSE IF line # <<>>
        THEN [st EXCEPT !.cur = Append(st.cur, line), !.curmeta = st.meta]
        ELSE [st EXCEPT !.cur = <<>>, !.curmeta = st.meta, !.out = Flush(st)]

RECURSIVE HeaderLines(_, _)
HeaderLines(st, lines) ==
    IF lines = <<>> THEN Flush(st)
    ELSE HeaderLines(HeaderLineStep(st, Head(lines)), Tail(lines))

\* aggregate_lines_to_chunks: neighbours with equal metadata are joined by "  \n".
RECURSIVE AggregateLines(_, _)
AggregateLines(acc, entries) ==
    IF entries = <<>> THEN acc
    ELSE LET e == Head(entries)
             n == Len(acc)
         IN  IF n > 0 /\ acc[n].metadata = e.metadata
             THEN AggregateLines(
                    [acc EXCEPT ![n].page_content = @ \o <<SP, SP, NL>> \o e.page_content],
                    Tail(entries))
             ELSE AggregateLines(Append(acc, e), Tail(entries))

EmptyMeta == [k \in {} |-> <<>>]

MarkdownHeaderTextSplitter_split_text(text) ==
    AggregateLines(<<>>,
        HeaderLines([stack |-> <<>>, meta |-> EmptyMeta, cur |-> <<>>,
                     curmeta |-> EmptyMeta, out |-> <<>>],
                    SplitLines(text)))

(***************************************************************************)
(* RecursiveCharacterTextSplitter(chunk_size=CHUNK_SIZE,                   *)
(* chunk_overlap=CHUNK_OVERLAP, separators=["\n\n", "\n", ". ", " ", ""])  *)
(* with the library's defaults keep_separator=True, strip_whitespace=True. *)
(***************************************************************************)
CHUNK_SIZE == 1000
CHUNK_OVERLAP == 200

separators == << <<NL, NL>>, <<NL>>, <<".", SP>>, <<SP>>, <<>> >>

\* Positions at which sep occurs in text.
Occurrences(text, sep) ==
    { i \in 1..(Len(text) - Len(sep) + 1) : SubSeq(text, i, i + Len(sep) - 1) = sep }

\* The first separator that occurs in the text ("" always does).
RECURSIVE PickSeparator(_, _)
PickSeparator(text, i) ==
    IF separators[i] = <<>> \/ Occurrences(text, separators[i]) # {}
    THEN i
    ELSE PickSeparator(text, i + 1)

\* re.split with the separator kept at the start of the piece that follows it.
RECURSIVE SplitKeep(_, _, _)
SplitKeep(text, sep, from) ==
    LET occ == { i \in Occurrences(text, sep) : i >= from + (IF from = 1 THEN 0 ELSE Len(sep)) }
    IN  IF occ = {}
        THEN <<SubSeq(text, from, Len(text))>>
        ELSE LET k == CHOOSE i \in occ : \A j \in occ : i <= j
             IN  <<SubSeq(text, from, k - 1)>> \o SplitKeep(text, sep, k)

NonEmpty(piece) == piece # <<>>

SplitWithSeparator(text, sep) == SelectSeq(SplitKeep(text, sep, 1), NonEmpty)

\* _join_docs: the pieces concatenated and stripped; nothing when empty.
JoinDocs(docs, current) ==
    LET text == Strip(Flatten(current))
    IN  IF text = <<>> THEN docs ELSE Append(docs, text)

\* The while loop of _merge_splits: drop pieces from the front of current_doc.
RECURSIVE PopFront(_, _)
PopFront(m, len) ==
    IF m.total > CHUNK_OVERLAP \/ (m.total + len > CHUNK_SIZE /\ m.total > 0)
    THEN PopFront([m EXCEPT !.total = @ - Len(Head(m.current)),
                            !.current = Tail(@)], len)
    ELSE m

\* _merge_splits with an empty joining separator.
RECURSIVE MergeSplits(_, _)
MergeSplits(m, splits) ==
    IF splits = <<>> THEN JoinDocs(m.docs, m.current)
    ELSE LET d == Head(splits)
             m1 == IF m.total + Len(d) > CHUNK_SIZE /\ Len(m.current) > 0
                   THEN PopFront([m EXCEPT !.docs = JoinDocs(m.docs, m.current)], Len(d))
                   ELSE m
         IN  MergeSplits([m1 EXCEPT !.current = Append(@, d), !.total = @ + Len(d)],
                         Tail(splits))

MergeAll(splits) == MergeSplits([docs |-> <<>>, current |-> <<>>, total |-> 0], splits)

\* _merge_splits on the single characters of text (the separator ""): the
\* loop emits a chunk whenever CHUNK_SIZE characters are held and then drops
\* characters from the front until CHUNK_OVERLAP are left, so chunk k covers
\* CHUNK_SIZE characters from offset k * (CHUNK_SIZE - CHUNK_OVERLAP), and
\* the last chunk is the one that reaches the end of the text.
MergeChars(text) ==
    LET step == CHUNK_SIZE - CHUNK_OVERLAP
        n == Len(text)
        last == IF n <= CHUNK_SIZE THEN 0
                ELSE CHOOSE k \in 1..n :
                        /\ k * step + CHUNK_SIZE >= n
                        /\ (k - 1) * step + CHUNK_SIZE < n
        window(k) == Strip(SubSeq(text, k * step + 1,
                        IF k * step + CHUNK_SIZE < n THEN k * step + CHUNK_SIZE ELSE n))
    IN  SelectSeq([k \in 1..(last + 1) |-> window(k - 1)], NonEmpty)

\* _split_text(text, separators[from..])
RECURSIVE SplitTextFrom(_, _)
RECURSIVE SplitPieces(_, _, _, _)
SplitPieces(pieces, good, rest, final) ==
    IF pieces = <<>>
    THEN IF good = <<>> THEN final ELSE final \o MergeAll(good)
    ELSE LET s == Head(pieces)
         IN  IF Len(s) < CHUNK_SIZE
             THEN SplitPieces(Tail(pieces), Append(good, s), rest, final)
             ELSE LET flushed == IF good = <<>> THEN final ELSE final \o MergeAll(good)
                  IN  SplitPieces(Tail(pieces), <<>>, rest, flushed \o SplitTextFrom(s, rest))

SplitTextFrom(text, from) ==
    LET i == PickSeparator(text, from)
    IN  IF separators[i] = <<>>
        THEN MergeChars(text)
        ELSE SplitPieces(SplitWithSeparator(text, separators[i]), <<>>, i + 1, <<>>)

RecursiveCharacterTextSplitter_split_text(text) == SplitTextFrom(text, 1)

\* split_documents / create_documents: every chunk gets a copy of the metadata.
create_documents(text, metadata) ==
    LET texts == RecursiveCharacterTextSplitter_split_text(text)
    IN  [i \in 1..Len(texts) |-> [page_content |-> texts[i], metadata |-> metadata]]

(***************************************************************************)
(* scraper.scrape_and_process_url                                          *)
(***************************************************************************)
MIN_MARKDOWN_LEN == 100
MIN_CHUNK_LEN == 50

\* dict.get(key, '') on a metadata mapping whose values are texts.
MetaGet(m, key) == IF key \in DOMAIN m THEN m[key] ELSE <<>>

\* Python's `a or b` on strings.
StrOr(a, b) == IF a # <<>> THEN a ELSE b

\* Lines 147-153.
BaseMetadata(url, title, description, selector_used) ==
    [ source |-> url,
      title |-> IF title = "" THEN "No Title" ELSE title,
      description |-> description,
      selector_used |-> selector_used,
      content_type |-> "markdown" ]

\* Lines 164-168: the split's metadata after update(base_metadata) and the
\* section lookup.
SplitMetadata(split, base) ==
    LET meta == base @@ split.metadata
        header_info == StrOr(MetaGet(meta, "Header 1"), MetaGet(meta, "Header 2"))
    IN  IF header_info # <<>> THEN ("section" :> header_info) @@ meta ELSE meta

RECURSIVE SplitAll(_, _)
SplitAll(splits, base) ==
    IF splits = <<>> THEN <<>>
    ELSE create_documents(Head(splits).page_content, SplitMetadata(Head(splits), base))
            \o SplitAll(Tail(splits), base)

\* Lines 135-181: header splits (none when split_text raises), then size splits.
BuildChunks(markdown_content, base, split_raises) ==
    LET md_header_splits ==
            IF split_raises THEN <<>>
            ELSE MarkdownHeaderTextSplitter_split_text(markdown_content)
    IN  IF md_header_splits # <<>>
        THEN SplitAll(md_header_splits, base)
        ELSE create_documents(markdown_content, base)

\* re.match(r'^[\s\W]*$', s) on a stripped s.
OnlySpaceOrNonWord(s) == \A i \in 1..Len(s) : IsSpace(s[i]) \/ ~IsWord(s[i])

\* The test of line 187 without its regular expression.
IsValidChunkLengthOnly(chunk) == Len(Strip(chunk.page_content)) > MIN_CHUNK_LEN

\* The test of line 187 on a chunk.
IsValidChunk(chunk) ==
    LET clean_content == Strip(chunk.page_content)
    IN  Len(clean_content) > MIN_CHUNK_LEN /\ ~OnlySpaceOrNonWord(clean_content)

StripChunk(chunk) == [chunk EXCEPT !.page_content = Strip(@)]

\* Lines 184-189.
FilterChunks(chunks) ==
    LET kept == SelectSeq(chunks, IsValidChunk)
    IN  [i \in 1..Len(kept) |-> StripChunk(kept[i])]

\* Line 130 with only its emptiness test.
InsufficientContentEmptyOnly(markdown_content) == Strip(markdown_content) = <<>>

\* Line 130.
InsufficientContent(markdown_content) ==
    Strip(markdown_content) = <<>> \/ Len(Strip(markdown_content)) < MIN_MARKDOWN_LEN

NoTrace ==
    [ allowed |-> FALSE, selector_used |-> "None", html_content |-> <<>>,
      converted |-> FALSE, markdown_content |-> <<>>, chunked |-> FALSE,
      header_splits |-> <<>>,
      chunks |-> <<>> ]

\* What the call gives back: exc (it raised), none (it returned None), chunks
\* (the list returned), and the values of its locals on the way.
Returned(exc, none, valid_chunks, trace) ==
    [ exc |-> exc, none |-> none, valid_chunks |-> valid_chunks, trace |-> trace ]

scrape_and_process_url(url, site) ==
    LET is_allowed == check_robots_txt(site.robots)
        t1 == [NoTrace EXCEPT !.allowed = is_allowed.ret]
        found == ExtractContent(site.dom)
        t2 == [t1 EXCEPT !.selector_used = found.selector_used,
                         !.html_content = found.html_content]
        markdown_content == clean_markdown_content(Html2Text(found.html_content))
        t3 == [t2 EXCEPT !.converted = TRUE, !.markdown_content = markdown_content]
        base == BaseMetadata(url, site.dom.title, site.dom.description, found.selector_used)
        all_split == BuildChunks(markdown_content, base, site.split_raises)
        t4 == [t3 EXCEPT !.chunked = TRUE,
                         !.header_splits =
                            IF site.split_raises THEN <<>>
                            ELSE MarkdownHeaderTextSplitter_split_text(markdown_content),
                         !.chunks = all_split]
        valid_chunks == FilterChunks(all_split)
    IN  IF is_allowed.exc THEN Returned(TRUE, FALSE, <<>>, NoTrace)
        ELSE IF ~is_allowed.ret THEN Returned(FALSE, TRUE, <<>>, t1)
        ELSE IF site.load # "ok" THEN Returned(FALSE, TRUE, <<>>, t1)
        ELSE IF found.html_content = <<>> THEN Returned(FALSE, TRUE, <<>>, t2)
        ELSE IF InsufficientContent(markdown_content) THEN Returned(FALSE, TRUE, <<>>, t3)
        ELSE IF valid_chunks = <<>> THEN Returned(FALSE, TRUE, <<>>, t4)
        ELSE Returned(FALSE, FALSE, valid_chunks, t4)

(***************************************************************************)
(* The pages of the model.                                                 *)
(***************************************************************************)
Rep(c, n) == [i \in 1..n |-> c]

P(text) == [tag |-> "p", text |-> text]
H(tag, text) == [tag |-> tag, text |-> text]

EmptyHtml == <<>>
DocShort == << P(Rep("a", 40)) >>
Doc99 == << P(Rep("a", 99)) >>
Doc100 == << P(Rep("a", 100)) >>
Doc101 == << P(Rep("a", 101)) >>
DocSections == << H("h1", <<"T">>), P(Rep("a", 60)), H("h2", <<"U">>), P(Rep("b", 60)) >>
DocH2H3 == << H("h2", <<"U">>), P(Rep("a", 60)), H("h3", <<"T">>), P(Rep("b", 60)) >>
DocH3 == << H("h3", <<"T">>), P(Rep("a", 100)) >>
DocDots == << H("h2", <<"T">>), P(Rep("a", 60)),
              H("h2", <<"U">>), P(Rep("a", 40) \o Rep(".", 10)) >>
DocRule == << P(Rep("=", 60)), H("h2", <<"T">>), P(Rep("a", 60)) >>
DocAllRule == << P(Rep("=", 120)) >>
DocTiny == << H("h2", <<"T">>), P(Rep("a", 10)), H("h2", <<"U">>), P(Rep("a", 90)) >>
DocLong == << H("h2", <<"T">>), P(Rep("a", 1200)) >>
DocOnlyDots == << P(Rep("a", 45) \o Rep(".", 60)) >>

Docs ==
    { DocShort, Doc99, Doc100, Doc101, DocSections, DocH2H3, DocH3, DocDots,
      DocRule, DocAllRule, DocTiny, DocLong, DocOnlyDots }

\* The selectors the pages of the model use: the first, a middle and the last
\* of the priority list.
ProbeSelectors == {"article", "#content", ".page-content"}

\* What a selector matches: nothing, one empty element, or an element with
\* content followed by an empty one.
ElementOptions(doc) == { <<>>, <<EmptyHtml>>, <<doc, EmptyHtml>> }

Doms ==
    { [matches |-> m, body |-> b, title |-> t, description |-> ""] :
        m \in UNION { [ProbeSelectors -> ElementOptions(d)] : d \in Docs },
        b \in {EmptyHtml, DocSections},
        t \in {"Page"} }

Loads == {"ok", "timeout", "error"}

Sites ==
    [ robots : RobotsOutcomes, load : Loads, dom : Doms, split_raises : BOOLEAN ]

InitScrape ==
    /\ s_pc = "start"
    /\ s_site \in Sites
    /\ s_ret = <<>>
    /\ CleanIdle
    /\ RagIdle
    /\ RunIdle
    /\ BrowserIdle

Scrape ==
    /\ s_pc = "start"
    /\ s_ret' = scrape_and_process_url("url", s_site)
    /\ s_pc' = "returned"
    /\ UNCHANGED <<s_site, cleanVars, ragVars, runVars, browserVars>>

NextScrape == Scrape

SpecScrape == InitScrape /\ [][NextScrape]_vars

(***************************************************************************)
(* utils.clean_text and utils.save_docs_to_json                            *)
(***************************************************************************)
SAVE_MIN_LEN == 50

\* re.sub(r'\s+', ' ', text)
SubWhitespace(s) ==
    KeepWhere([i \in 1..Len(s) |-> IF IsSpace(s[i]) THEN SP ELSE s[i]],
              [i \in 1..Len(s) |-> ~(IsSpace(s[i]) /\ i > 1 /\ IsSpace(s[i - 1]))])

\* The characters of the model in [\x00-\x08\x0B\x0C\x0E-\x1F\x7F-\x9F].
IsControl(c) == c \in {"\f"}

SubControl(s) == KeepWhere(s, [i \in 1..Len(s) |-> ~IsControl(s[i])])

\* Positions i..j (in either order) hold whitespace only.
SameSpaceRun(s, i, j) ==
    \A k \in (IF i < j THEN i ELSE j)..(IF i < j THEN j ELSE i) : IsSpace(s[k])

\* The newlines of the whitespace run position i lies in.
RunNewlines(s, i) == { j \in 1..Len(s) : s[j] = NL /\ SameSpaceRun(s, i, j) }

\* re.sub(r'\n\s*\n\s*\n+', '\n\n', text): in a whitespace run with three or
\* more newlines the match reaches from the first newline to the last one,
\* and those two are what is left of it.
SubBlankLines(s) ==
    KeepWhere(s, [i \in 1..Len(s) |->
        ~(/\ IsSpace(s[i])
          /\ Cardinality(RunNewlines(s, i)) >= 3
          /\ \E a, b \in RunNewlines(s, i) : a < i /\ i < b)])

\* re.sub(r'\t+', ' ', text)
SubTabs(s) ==
    KeepWhere([i \in 1..Len(s) |-> IF s[i] = "\t" THEN SP ELSE s[i]],
              [i \in 1..Len(s) |-> ~(s[i] = "\t" /\ i > 1 /\ s[i - 1] = "\t")])

SubDots(s) == ReSubRun3(s, ".", 3)

SubDashes(s) == ReSubRun3(s, "-", 3)

clean_text(text) ==
    IF text = <<>> THEN <<>>
    ELSE Strip(SubDashes(SubDots(SubTabs(SubBlankLines(SubControl(SubWhitespace(text)))))))

\* The record written for a document (lines 37-41).
SavedRecord(doc) ==
    [ page_content |-> clean_text(doc.page_content),
      metadata |-> doc.metadata,
      content_length |-> Len(clean_text(doc.page_content)) ]

\* The test of line 36.
IsMeaningful(doc) ==
    clean_text(doc.page_content) # <<>> /\ Len(clean_text(doc.page_content)) > SAVE_MIN_LEN

\* Lines 33-41.
CleanedDocs(docs) ==
    LET kept == SelectSeq(docs, IsMeaningful)
    IN  [i \in 1..Len(kept) |-> SavedRecord(kept[i])]

\* A file of the output directory: whether a write completed, and its records.
NoFile == [written |-> FALSE, records |-> <<>>]

SaveOutcomes == {"ok", "makedirs_error", "write_error"}

\* save_docs_to_json(docs, filename) when the file system behaves as io says:
\* exc (os.makedirs raised, line 31), ret (the count returned) and the file.
save_docs_to_json(docs, file, io) ==
    CASE io = "makedirs_error" -> [exc |-> TRUE, ret |-> 0, file |-> file]
      [] io = "write_error" -> [exc |-> FALSE, ret |-> 0, file |-> NoFile]
      [] OTHER -> [exc |-> FALSE, ret |-> Len(CleanedDocs(docs)),
                   file |-> [written |-> TRUE, records |-> CleanedDocs(docs)]]

(***************************************************************************)
(* rag.RAGProcessor                                                        *)
(***************************************************************************)
RAG_MIN_LEN == 30

None == [kind |-> "None"]

\* A FAISS index over docs.
Faiss(docs) == [kind |-> "FAISS", docs |-> docs]

\* Line 36.
HasContent(doc) == Len(Strip(doc.page_content)) > RAG_MIN_LEN

\* create_vector_store(documents) when FAISS.from_documents behaves as backend
\* says: [ret |-> the value returned, store |-> self.vector_store afterwards].
create_vector_store(store, documents, backend) ==
    LET valid_docs == SelectSeq(documents, HasContent)
    IN  IF valid_docs = <<>> THEN [ret |-> None, store |-> store]
        ELSE IF backend = "error" THEN [ret |-> None, store |-> store]
        ELSE [ret |-> Faiss(valid_docs), store |-> Faiss(valid_docs)]

\* save_vector_store(): [ret, disk |-> the directory afterwards].
save_vector_store(store, disk, io) ==
    IF store = None THEN [ret |-> FALSE, disk |-> disk]
    ELSE IF io = "error" THEN [ret |-> FALSE, disk |-> disk]
    ELSE [ret |-> TRUE, disk |-> store]

\* load_vector_store(): FAISS.load_local raises when nothing was saved or the
\* read fails.
load_vector_store(store, disk, io) ==
    IF disk = None \/ io = "error" THEN [ret |-> None, store |-> store]
    ELSE [ret |-> disk, store |-> disk]

\* vector_store.similarity_search(query, k=k): the k best documents, or an error.
BackendSearch(store, k, backend) ==
    IF backend = "error" THEN [exc |-> TRUE, ret |-> <<>>]
    ELSE [exc |-> FALSE,
          ret |-> SubSeq(store.docs, 1, IF k < Len(store.docs) THEN k ELSE Len(store.docs))]

\* similarity_search without its try/except.
similarity_search_no_except(store, k, backend) ==
    IF store = None THEN [exc |-> FALSE, ret |-> <<>>]
    ELSE BackendSearch(store, k, backend)

\* similarity_search(query, k): [exc |-> it raised, ret |-> the list returned].
similarity_search(store, k, backend) ==
    IF store = None THEN [exc |-> FALSE, ret |-> <<>>]
    ELSE LET results == BackendSearch(store, k, backend)
         IN  IF results.exc THEN [exc |-> FALSE, ret |-> <<>>] ELSE results

(***************************************************************************)
(* SpecRag: a RAGProcessor under any MaxCalls calls of its methods.        *)
(***************************************************************************)
MaxCalls == 4

RagDoc(c, n) == [page_content |-> Rep(c, n), metadata |-> [source |-> "url"]]

\* Document lists handed to create_vector_store: empty, too short to index,
\* and indexable ones.
RagInputs ==
    { <<>>,
      << RagDoc("a", 30) >>,
      << RagDoc("a", 31) >>,
      << RagDoc("b", 40), RagDoc("a", 10), RagDoc("a", 31) >> }

Backends == {"ok", "error"}

InitRag ==
    /\ r_store = None
    /\ r_disk \in {None, Faiss(<< RagDoc("b", 40) >>)}
    /\ r_last = [op |-> "init", failed |-> FALSE, prev |-> None, backend |-> "ok",
                 exc |-> FALSE, ret |-> <<>>]
    /\ r_calls = 0
    /\ CleanIdle
    /\ ScrapeIdle
    /\ RunIdle
    /\ BrowserIdle

RagCreate ==
    /\ r_calls < MaxCalls
    /\ \E documents \in RagInputs, backend \in Backends :
        LET c == create_vector_store(r_store, documents, backend)
        IN  /\ r_store' = c.store
            /\ r_last' = [op |-> "create", failed |-> c.ret = None, prev |-> r_store,
                          backend |-> backend, exc |-> FALSE, ret |-> <<>>]
    /\ r_calls' = r_calls + 1
    /\ UNCHANGED <<r_disk, cleanVars, scrapeVars, runVars, browserVars>>

RagSave ==
    /\ r_calls < MaxCalls
    /\ \E io \in Backends :
        LET c == save_vector_store(r_store, r_disk, io)
        IN  /\ r_disk' = c.disk
            /\ r_last' = [op |-> "save", failed |-> ~c.ret, prev |-> r_store,
                          backend |-> io, exc |-> FALSE, ret |-> <<>>]
    /\ r_calls' = r_calls + 1
    /\ UNCHANGED <<r_store, cleanVars, scrapeVars, runVars, browserVars>>

RagLoad ==
    /\ r_calls < MaxCalls
    /\ \E io \in Backends :
        LET c == load_vector_store(r_store, r_disk, io)
        IN  /\ r_store' = c.store
            /\ r_last' = [op |-> "load", failed |-> c.ret = None, prev |-> r_store,
                          backend |-> io, exc |-> FALSE, ret |-> <<>>]
    /\ r_calls' = r_calls + 1
    /\ UNCHANGED <<r_disk, cleanVars, scrapeVars, runVars, browserVars>>

RagSearch ==
    /\ r_calls < MaxCalls
    /\ \E k \in {2, 3}, backend \in Backends :
        LET c == similarity_search(r_store, k, backend)
        IN  r_last' = [op |-> "search", failed |-> FALSE, prev |-> r_store,
                       backend |-> backend, exc |-> c.exc, ret |-> c.ret]
    /\ r_calls' = r_calls + 1
    /\ UNCHANGED <<r_store, r_disk, cleanVars, scrapeVars, runVars, browserVars>>

NextRag == RagCreate \/ RagSave \/ RagLoad \/ RagSearch

SpecRag == InitRag /\ [][NextRag]_vars

\* C10: similarity_search never raises; on an uninitialized store or a
\* failing backend it returns the empty list; a failed build or load leaves
\* self.vector_store as it was.
C10_SearchNeverRaises ==
    /\ r_last.op = "search" =>
        /\ ~r_last.exc
        /\ (r_last.prev = None \/ r_last.backend = "error") => r_last.ret = <<>>
        /\ r_store = r_last.prev
    /\ (r_last.op \in {"create", "load"} /\ r_last.failed) => r_store = r_last.prev

\* A search whose backend failed, on a store that a later failed build left
\* in place.
C10_Witness ==
    /\ r_last.op = "search"
    /\ r_last.prev # None
    /\ r_last.backend = "error"
    /\ r_last.ret = <<>>

(***************************************************************************)
(* main.run_enhanced_scraper (Spec).                                       *)
(***************************************************************************)
\* The number of URLs of URLS_TO_SCRAPE the model runs over; URL k is k.
NumUrls == 2

\* len(test_queries)
NUM_TEST_QUERIES == 4

\* What the web serves for a URL in a run.
SiteOf(robots, load, doc) ==
    [ robots |-> robots, load |-> load, split_raises |-> FALSE,
      dom |-> [matches |-> ("article" :> <<doc>>), body |-> EmptyHtml,
               title |-> "Page", description |-> ""] ]

RunSites ==
    { SiteOf("policy_disallow", "ok", DocSections),
      SiteOf("url_parse_error", "ok", DocSections),
      SiteOf("policy_allow", "timeout", DocSections),
      SiteOf("http_404", "ok", DocShort),
      SiteOf("policy_allow", "ok", DocAllRule),
      SiteOf("policy_allow", "ok", DocOnlyDots),
      SiteOf("policy_allow", "ok", DocSections),
      SiteOf("network_error", "ok", DocDots),
      SiteOf("policy_allow", "ok", DocRule) }

\* The branch of lines 32-55 a URL takes: ret is what scrape_and_process_url
\* gave, saved what save_docs_to_json gave (when it was called).
UrlBranch(ret, saved) ==
    IF ret.exc THEN "exception"
    ELSE IF ~ret.none /\ Len(ret.valid_chunks) > 0
    THEN IF saved.exc THEN "exception"
         ELSE IF saved.ret > 0 THEN "success"
         ELSE "no_valid_chunks"
    ELSE "could_not_process"

\* The increment of failed_scrapes when the except clause of line 53 does not
\* count the URL.
FailedIncrementNoExcept(branch) ==
    IF branch \in {"success", "exception"} THEN 0 ELSE 1

\* The increments of successful_scrapes and failed_scrapes (lines 44-54).
SuccessIncrement(branch) == IF branch = "success" THEN 1 ELSE 0

FailedIncrement(branch) == IF branch = "success" THEN 0 ELSE 1

\* `if vector_store:` (line 81) with the test always passing.
IsTruthyAlways(value) == TRUE

\* `if vector_store:` (line 81).
IsTruthy(value) == value # None

RECURSIVE SumLen(_)
SumLen(docs) ==
    IF docs = <<>> THEN 0 ELSE Len(Head(docs).page_content) + SumLen(Tail(docs))

\* utils.create_rag_summary
create_rag_summary(chunks) ==
    IF chunks = <<>> THEN [error |-> "No chunks available"]
    ELSE [ total_documents |-> Len(chunks),
           unique_sources |->
                Cardinality({ chunks[k].metadata["source"] : k \in 1..Len(chunks) }),
           total_characters |-> SumLen(chunks),
           ready_for_rag |-> TRUE ]

NothingDone ==
    [ rag_constructed |-> FALSE, build_attempted |-> FALSE, build_ok |-> FALSE,
      save_attempted |-> FALSE, save_ok |-> FALSE, write_failed |-> FALSE,
      searches |-> 0 ]

Init ==
    /\ pc = "loop"
    /\ url_index = 0
    /\ all_chunks = <<>>
    /\ successful_scrapes = 0
    /\ failed_scrapes = 0
    /\ total_chunks = 0
    /\ processed_chunks = <<>>
    /\ url_files = [u \in 1..NumUrls |-> NoFile]
    /\ summary_file = NoFile
    /\ combined_file = NoFile
    /\ vector_store = None
    /\ disk_store = None
    /\ query_index = 0
    /\ result = "none"
    /\ processed = <<>>
    /\ did = NothingDone
    /\ CleanIdle
    /\ ScrapeIdle
    /\ RagIdle
    /\ BrowserIdle

phase2Vars == <<summary_file, combined_file, vector_store, disk_store, query_index>>
loopVars ==
    <<url_index, all_chunks, successful_scrapes, failed_scrapes, total_chunks,
      processed_chunks, url_files, processed>>
otherVars == <<cleanVars, scrapeVars, ragVars, browserVars>>

\* One iteration of the loop of lines 29-55.
ProcessUrl ==
    /\ pc = "loop"
    /\ url_index < NumUrls
    /\ \E site \in RunSites, io \in SaveOutcomes :
        \E ret \in {scrape_and_process_url(url_index + 1, site)} :
        \E saved \in {save_docs_to_json(ret.valid_chunks, url_files[url_index + 1], io)} :
        \E branch \in {UrlBranch(ret, saved)} :
            /\ processed_chunks' = ret
            /\ url_files' =
                    IF ~ret.exc /\ ~ret.none /\ Len(ret.valid_chunks) > 0
                    THEN [url_files EXCEPT ![url_index + 1] = saved.file]
                    ELSE url_files
            /\ all_chunks' = IF branch = "success" THEN all_chunks \o ret.valid_chunks
                             ELSE all_chunks
            /\ total_chunks' = IF branch = "success"
                               THEN total_chunks + Len(ret.valid_chunks)
                               ELSE total_chunks
            /\ successful_scrapes' = successful_scrapes + SuccessIncrement(branch)
            /\ failed_scrapes' = failed_scrapes + FailedIncrement(branch)
            /\ processed' = Append(processed, [url |-> url_index + 1, outcome |-> branch])
    /\ url_index' = url_index + 1
    /\ UNCHANGED <<pc, result, did, phase2Vars, otherVars>>

\* Lines 57-68: the loop is over; without chunks the run ends in failure.
EndLoop ==
    /\ pc = "loop"
    /\ url_index = NumUrls
    /\ IF all_chunks = <<>>
       THEN pc' = "done" /\ result' = FALSE
       ELSE pc' = "rag_init" /\ UNCHANGED result
    /\ UNCHANGED <<did, loopVars, phase2Vars, otherVars>>

\* Line 76: RAGProcessor(); setup_embeddings re-raises a failed model load,
\* which the except of line 143 turns into a failed run.
ConstructRag ==
    /\ pc = "rag_init"
    /\ \E embeddings \in Backends :
        IF embeddings = "error"
        THEN pc' = "done" /\ result' = FALSE /\ UNCHANGED <<did, vector_store>>
        ELSE /\ pc' = "build"
             /\ vector_store' = None
             /\ did' = [did EXCEPT !.rag_constructed = TRUE]
             /\ UNCHANGED result
    /\ UNCHANGED <<loopVars, summary_file, combined_file, disk_store, query_index, otherVars>>

\* Lines 79-81 and 139-141.
Build ==
    /\ pc = "build"
    /\ \E backend \in Backends :
        LET c == create_vector_store(vector_store, all_chunks, backend)
        IN  /\ vector_store' = c.store
            /\ did' = [did EXCEPT !.build_attempted = TRUE, !.build_ok = c.ret # None]
            /\ IF IsTruthy(c.ret)
               THEN pc' = "save" /\ UNCHANGED result
               ELSE pc' = "done" /\ result' = FALSE
    /\ UNCHANGED <<loopVars, summary_file, combined_file, disk_store, query_index, otherVars>>

\* Lines 83-84 with a failed save ending the run.
AfterSaveFatal(saved_ok) == IF saved_ok THEN "summary" ELSE "done"

\* Lines 83-86: where the run goes after save_vector_store returned saved_ok;
\* the value only decides whether line 84 logs.
AfterSave(saved_ok) == "summary"

\* Lines 83-84.
Save ==
    /\ pc = "save"
    /\ \E io \in Backends :
        LET c == save_vector_store(vector_store, disk_store, io)
        IN  /\ disk_store' = c.disk
            /\ did' = [did EXCEPT !.save_attempted = TRUE, !.save_ok = c.ret]
            /\ pc' = AfterSave(c.ret)
            /\ result' = IF AfterSave(c.ret) = "done" THEN FALSE ELSE result
    /\ UNCHANGED <<loopVars, summary_file, combined_file, vector_store,
                   query_index, otherVars>>

\* Lines 87-93: a failed write raises into the except of line 143.
WriteSummary ==
    /\ pc = "summary"
    /\ \E io \in Backends :
        IF io = "error"
        THEN /\ pc' = "done" /\ result' = FALSE
             /\ did' = [did EXCEPT !.write_failed = TRUE]
             /\ UNCHANGED summary_file
        ELSE /\ summary_file' = [written |-> TRUE,
                                 records |-> create_rag_summary(all_chunks)]
             /\ pc' = "combined"
             /\ UNCHANGED <<result, did>>
    /\ UNCHANGED <<loopVars, combined_file, vector_store, disk_store,
                   query_index, otherVars>>

\* Lines 96-98: the count returned is not looked at.
WriteCombined ==
    /\ pc = "combined"
    /\ \E io \in SaveOutcomes :
        LET saved == save_docs_to_json(all_chunks, combined_file, io)
        IN  /\ did' = [did EXCEPT !.write_failed = (io # "ok")]
            /\ IF saved.exc
               THEN pc' = "done" /\ result' = FALSE /\ UNCHANGED combined_file
               ELSE pc' = "queries" /\ combined_file' = saved.file /\ UNCHANGED result
    /\ UNCHANGED <<loopVars, summary_file, vector_store, disk_store,
                   query_index, otherVars>>

\* Lines 112-125: one test query.
Query ==
    /\ pc = "queries"
    /\ query_index < NUM_TEST_QUERIES
    /\ \E backend \in Backends :
        LET c == similarity_search(vector_store, 2, backend)
        IN  IF c.exc
            THEN pc' = "done" /\ result' = FALSE /\ UNCHANGED <<did, query_index>>
            ELSE /\ did' = [did EXCEPT !.searches = @ + 1]
                 /\ query_index' = query_index + 1
                 /\ UNCHANGED <<pc, result>>
    /\ UNCHANGED <<loopVars, summary_file, combined_file, vector_store, disk_store,
                   otherVars>>

\* Lines 127-137.
Finish ==
    /\ pc = "queries"
    /\ query_index = NUM_TEST_QUERIES
    /\ pc' = "done"
    /\ result' = TRUE
    /\ UNCHANGED <<did, loopVars, phase2Vars, otherVars>>

Next ==
    \/ ProcessUrl
    \/ EndLoop
    \/ ConstructRag
    \/ Build
    \/ Save
    \/ WriteSummary
    \/ WriteCombined
    \/ Query
    \/ Finish

Spec == Init /\ [][Next]_vars

(***************************************************************************)
(* SpecSession: the browser sessions of the URL loop, with                 *)
(* scrape_and_process_url taken one step at a time.                        *)
(***************************************************************************)
\* p.chromium.launch (line 68): a session for the URL is open.
BrowserLaunch(sessions, url) == sessions \cup {url}

\* browser.close() (line 111).
BrowserClose(sessions, url) == sessions \ {url}

\* Leaving the with block with the browser left as it is.
ContextExitKeepsBrowser(sessions, url) == sessions

\* Leaving `with sync_playwright() as p` (line 67), normally or by an
\* exception: Playwright is stopped, and with it every browser it launched.
ContextExit(sessions, url) == sessions \ {url}

\* How a step of the with block ends.
StepOutcomes == {"ok", "error"}

InitSession ==
    /\ b_pc = "next_url"
    /\ b_url = 0
    /\ b_sessions = {}
    /\ b_raised = FALSE
    /\ b_log = <<>>
    /\ CleanIdle
    /\ ScrapeIdle
    /\ RagIdle
    /\ RunIdle

sessionOthers == <<cleanVars, scrapeVars, ragVars, runVars>>

\* main.py line 32 and scraper.py lines 61-62: the next URL and its robots
\* check. A URL refused, or one whose check raised, is over at once.
BeginUrl ==
    /\ b_pc = "next_url"
    /\ b_url < NumUrls
    /\ \E outcome \in RobotsOutcomes :
        \E is_allowed \in {check_robots_txt(outcome)} :
            /\ b_log' = Append(b_log,
                    [ robots |-> outcome,
                      allowed |-> ~is_allowed.exc /\ is_allowed.ret,
                      opened |-> FALSE,
                      exit |-> IF is_allowed.exc THEN "robots_raised"
                               ELSE IF ~is_allowed.ret THEN "disallowed"
                               ELSE "pending" ])
            /\ b_pc' = IF ~is_allowed.exc /\ is_allowed.ret THEN "launch" ELSE "next_url"
    /\ b_url' = b_url + 1
    /\ b_raised' = FALSE
    /\ UNCHANGED <<b_sessions, sessionOthers>>

\* Lines 67-69: the browser is launched, or the launch raises.
Launch ==
    /\ b_pc = "launch"
    /\ \E launch \in StepOutcomes :
        IF launch = "ok"
        THEN /\ b_sessions' = BrowserLaunch(b_sessions, b_url)
             /\ b_log' = [b_log EXCEPT ![b_url].opened = TRUE]
             /\ b_pc' = "goto"
             /\ UNCHANGED b_raised
        ELSE /\ b_raised' = TRUE
             /\ b_log' = [b_log EXCEPT ![b_url].exit = "launch_error"]
             /\ b_pc' = "exit_with"
             /\ UNCHANGED b_sessions
    /\ UNCHANGED <<b_url, sessionOthers>>

\* Lines 72-76: the page loads, times out or fails otherwise.
Goto ==
    /\ b_pc = "goto"
    /\ \E load \in Loads :
        IF load = "ok"
        THEN b_pc' = "query" /\ UNCHANGED <<b_raised, b_log>>
        ELSE /\ b_raised' = TRUE
             /\ b_log' = [b_log EXCEPT ![b_url].exit = load]
             /\ b_pc' = "exit_with"
    /\ UNCHANGED <<b_url, b_sessions, sessionOthers>>

\* Lines 79-107: the selectors, the title and the description are read.
QueryPage ==
    /\ b_pc = "query"
    /\ \E query \in StepOutcomes :
        IF query = "ok"
        THEN b_pc' = "close" /\ UNCHANGED <<b_raised, b_log>>
        ELSE /\ b_raised' = TRUE
             /\ b_log' = [b_log EXCEPT ![b_url].exit = "query_error"]
             /\ b_pc' = "exit_with"
    /\ UNCHANGED <<b_url, b_sessions, sessionOthers>>

\* Line 111.
CloseBrowser ==
    /\ b_pc = "close"
    /\ \E close \in StepOutcomes :
        IF close = "ok"
        THEN /\ b_sessions' = BrowserClose(b_sessions, b_url)
             /\ b_log' = [b_log EXCEPT ![b_url].exit = "closed"]
             /\ UNCHANGED b_raised
        ELSE /\ b_raised' = TRUE
             /\ b_log' = [b_log EXCEPT ![b_url].exit = "close_error"]
             /\ UNCHANGED b_sessions
    /\ b_pc' = "exit_with"
    /\ UNCHANGED <<b_url, sessionOthers>>

\* The end of the with block: after an exception the handlers of lines
\* 198-203 return None, otherwise the rest of the function follows.
ExitWith ==
    /\ b_pc = "exit_with"
    /\ b_sessions' = ContextExit(b_sessions, b_url)
    /\ b_pc' = IF b_raised THEN "next_url" ELSE "rest"
    /\ UNCHANGED <<b_url, b_raised, b_log, sessionOthers>>

\* Lines 113-196 and main.py lines 34-51: conversion, chunking and saving,
\* none of which touches the browser.
RestOfUrl ==
    /\ b_pc = "rest"
    /\ b_pc' = "next_url"
    /\ UNCHANGED <<b_url, b_sessions, b_raised, b_log, sessionOthers>>

NextSession ==
    \/ BeginUrl
    \/ Launch
    \/ Goto
    \/ QueryPage
    \/ CloseBrowser
    \/ ExitWith
    \/ RestOfUrl

SpecSession == InitSession /\ [][NextSession]_vars

\* C11: at most one browser session is open at any time; whenever the next
\* URL is about to be taken every session is closed, whichever way the
\* previous call was left; and a session is opened only for a URL the robots
\* check allowed.
C11_OneSessionClosedBeforeNext ==
    /\ Cardinality(b_sessions) <= 1
    /\ b_sessions \subseteq {b_url}
    /\ b_pc \in {"next_url", "rest"} => b_sessions = {}
    /\ \A u \in 1..Len(b_log) : b_log[u].opened => b_log[u].allowed
    /\ \A u \in 1..Len(b_log) :
            b_log[u].exit \in {"disallowed", "robots_raised"} => ~b_log[u].opened

\* The first URL's page load timed out with its session open, and the second
\* URL has its own session open.
C11_Witness ==
    /\ Len(b_log) = 2
    /\ b_log[1].opened /\ b_log[1].exit = "timeout"
    /\ b_sessions = {2}

(***************************************************************************)
(* Claims about a run (Spec).                                              *)
(***************************************************************************)
\* C1: every configured URL is processed exactly once and in list order
\* whatever the earlier URLs did; each URL adds one to exactly one of
\* successful_scrapes and failed_scrapes, and the loop is left only after the
\* last URL, with successful_scrapes + failed_scrapes = the number of URLs.
C1_EveryUrlCounted ==
    /\ [](/\ Len(processed) = url_index
          /\ \A k \in 1..Len(processed) : processed[k].url = k
          /\ successful_scrapes + failed_scrapes = url_index
          /\ pc # "loop" => url_index = NumUrls)
    /\ [][url_index' # url_index =>
            /\ url_index' = url_index + 1
            /\ \/ /\ successful_scrapes' = successful_scrapes + 1
                  /\ failed_scrapes' = failed_scrapes
               \/ /\ successful_scrapes' = successful_scrapes
                  /\ failed_scrapes' = failed_scrapes + 1]_vars

\* A URL raised, and the next one was scraped and saved.
C1_Witness ==
    /\ Len(processed) = 2
    /\ processed[1].outcome = "exception"
    /\ processed[2].outcome = "success"
    /\ pc = "done"

\* C2: the vector store is saved and queried only after a build that
\* succeeded on a non-empty all_chunks; with no chunks the run fails before a
\* RAGProcessor exists, and a failed build fails the run with no save and no
\* search.
C2_SaveAndQueryOnlyAfterBuild ==
    /\ (did.save_attempted \/ did.searches > 0) => (did.build_ok /\ all_chunks # <<>>)
    /\ (pc # "loop" /\ all_chunks = <<>>) =>
            /\ pc = "done" /\ result = FALSE
            /\ ~did.rag_constructed /\ ~did.build_attempted
    /\ (did.build_attempted /\ ~did.build_ok) =>
            /\ pc = "done" /\ result = FALSE
            /\ ~did.save_attempted /\ did.searches = 0

\* The build failed on a non-empty all_chunks and the run ended.
C2_Witness ==
    /\ did.build_attempted /\ ~did.build_ok
    /\ all_chunks # <<>>
    /\ pc = "done"

\* page_content is trimmed, longer than 50 characters and has a word character.
GoodContent(content) ==
    /\ Len(content) > 50
    /\ ~IsSpace(content[1]) /\ ~IsSpace(content[Len(content)])
    /\ \E k \in 1..Len(content) : IsWord(content[k])

AllGood(docs) == \A k \in 1..Len(docs) : GoodContent(docs[k].page_content)

\* The chunks built for the last URL that pass / fail the requirement.
LastKept ==
    SelectSeq(processed_chunks.trace.chunks,
              LAMBDA c : Strip(c.page_content) # <<>> /\ GoodContent(Strip(c.page_content)))

\* C6: every chunk scrape_and_process_url returns is trimmed, longer than 50
\* characters and not only whitespace/non-word characters; the chunks returned
\* are the built chunks that meet this, so a violator is dropped, and nothing
\* in a per-URL file, the combined file or the vector store violates it; when
\* no chunk survives the call returns None without raising.
C6_OnlyValidChunks ==
    /\ url_index > 0 =>
        /\ AllGood(processed_chunks.valid_chunks)
        /\ processed_chunks.trace.chunked =>
            /\ Len(processed_chunks.valid_chunks) = Len(LastKept)
            /\ \A k \in 1..Len(LastKept) :
                    processed_chunks.valid_chunks[k].page_content
                        = Strip(LastKept[k].page_content)
            /\ LastKept = <<>> => (processed_chunks.none /\ ~processed_chunks.exc)
    /\ AllGood(all_chunks)
    /\ \A u \in 1..NumUrls : AllGood(url_files[u].records)
    /\ AllGood(combined_file.records)
    /\ vector_store # None => AllGood(vector_store.docs)

\* A built chunk was dropped, the others were returned, saved and indexed.
C6_Witness ==
    /\ url_index > 0
    /\ processed_chunks.trace.chunked
    /\ Len(processed_chunks.valid_chunks) > 0
    /\ Len(processed_chunks.valid_chunks) < Len(processed_chunks.trace.chunks)
    /\ url_files[url_index].written
    /\ combined_file.written
    /\ vector_store # None

\* C12: a save_vector_store that returns False after a successful build does
\* not end the run: control goes on to the summary with the in-memory store
\* kept, and unless a later file write fails the run ends with the summary
\* and the combined file written, all test queries run on that store, and
\* result True, while nothing is on disk at VECTOR_STORE_PATH for a later
\* load_vector_store to find.
C12_FailedSaveNotFatal ==
    /\ []((did.save_attempted /\ ~did.save_ok) =>
            /\ did.build_ok /\ vector_store # None
            /\ disk_store = None
            /\ load_vector_store(None, disk_store, "ok").ret = None
            /\ (pc = "done" /\ result = FALSE) => did.write_failed
            /\ (pc = "done" /\ ~did.write_failed) =>
                /\ result = TRUE
                /\ summary_file.written
                /\ combined_file.written
                /\ combined_file.records = CleanedDocs(all_chunks)
                /\ did.searches = NUM_TEST_QUERIES)
    /\ [][(did'.save_attempted /\ ~did.save_attempted) =>
            /\ pc' = "summary"
            /\ vector_store' = vector_store
            /\ result' = result]_vars

\* The run ended with True although the save failed and no store is on disk.
C12_Witness ==
    /\ pc = "done"
    /\ result = TRUE
    /\ did.save_attempted /\ ~did.save_ok
    /\ disk_store = None
    /\ summary_file.written /\ combined_file.written
    /\ did.searches = NUM_TEST_QUERIES

RECURSIVE FilesTogether(_)
FilesTogether(u) ==
    IF u = 0 THEN <<>> ELSE FilesTogether(u - 1) \o url_files[u].records

\* C9: once the combined file is written it holds the chunks of all_chunks,
\* each once: the records of the per-URL files taken together, and the chunks
\* handed to the vector-store build.
C9_CombinedIsAllChunks ==
    combined_file.written =>
        /\ Len(combined_file.records) = Len(all_chunks)
        /\ \A k \in 1..Len(combined_file.records) :
                combined_file.records[k].metadata = all_chunks[k].metadata

\* The combined file holds the per-URL files' records of the URLs counted as
\* successes, in order.
C9_CombinedIsPerUrlFiles ==
    (combined_file.written /\ \A u \in 1..NumUrls :
            processed[u].outcome = "success" \/ url_files[u].records = <<>>) =>
        combined_file.records = FilesTogether(NumUrls)

(***************************************************************************)
(* Claims about one call of scrape_and_process_url (SpecScrape).           *)
(***************************************************************************)
\* The call got as far as the selector loop.
Extracted == s_pc = "returned" /\ s_ret.trace.selector_used # "None"

\* Indexes of the selectors of the priority list that match an element.
Matching(dom) ==
    { i \in 1..Len(content_selectors) : Len(Locator(dom, content_selectors[i])) > 0 }

FirstMatching(dom) == CHOOSE i \in Matching(dom) : \A j \in Matching(dom) : i <= j

\* C3 as claimed: whenever no policy could be obtained from the site the
\* check answers allowed, and it answers not-allowed only when a policy that
\* was read disallows the URL.
C3_FailsOpen ==
    (s_pc = "returned" /\ ~s_ret.exc) =>
        /\ (s_site.robots \in RobotsFailures => s_ret.trace.allowed)
        /\ (~s_ret.trace.allowed => s_site.robots = "policy_disallow")

\* C4 as claimed: selector_used is the first selector of the list that
\* matches, the HTML is its first element's inner HTML, and 'body' is used
\* exactly when no selector matches.
C4_FirstMatchWins ==
    Extracted =>
        LET dom == s_site.dom
            t == s_ret.trace
        IN  /\ Matching(dom) # {} =>
                /\ t.selector_used = content_selectors[FirstMatching(dom)]
                /\ t.html_content = Locator(dom, content_selectors[FirstMatching(dom)])[1]
            /\ (t.selector_used = "body" <=> Matching(dom) = {})

\* C4 amended: when the first matching selector's first element has content,
\* that selector and that element's inner HTML are used; the body is used
\* exactly when no selector matches or that first element is empty.
C4_FirstMatchWinsUnlessEmpty ==
    Extracted =>
        LET dom == s_site.dom
            t == s_ret.trace
            fallback ==
                \/ Matching(dom) = {}
                \/ Locator(dom, content_selectors[FirstMatching(dom)])[1] = <<>>
        IN  /\ (t.selector_used = "body" <=> fallback)
            /\ fallback => t.html_content = dom.body
            /\ ~fallback =>
                /\ t.selector_used = content_selectors[FirstMatching(dom)]
                /\ t.html_content = Locator(dom, content_selectors[FirstMatching(dom)])[1]

\* Two selectors match, the earlier one with content: it is the one used.
C4_Witness ==
    /\ Extracted
    /\ Cardinality(Matching(s_site.dom)) >= 2
    /\ s_ret.trace.selector_used = "#content"
    /\ s_ret.trace.html_content # <<>>

\* A selector matches an empty element and the body is used instead.
C4_EmptyMatchWitness ==
    /\ Extracted
    /\ Matching(s_site.dom) # {}
    /\ s_ret.trace.selector_used = "body"

\* C7 as claimed: every chunk of a header split that lies under a level-1 or
\* level-2 header carries a `section` field holding that header's text.
C7_SectionFromHeader ==
    (s_pc = "returned" /\ s_ret.trace.chunked) =>
        \A i \in 1..Len(s_ret.trace.chunks) :
            LET m == s_ret.trace.chunks[i].metadata
            IN  ("H1" \in DOMAIN m \/ "H2" \in DOMAIN m) =>
                    /\ "section" \in DOMAIN m
                    /\ m["section"] = StrOr(MetaGet(m, "H1"), MetaGet(m, "H2"))

\* C8 as claimed: a cleaned result of 100 stripped characters or fewer is
\* never chunked and the call returns None.
C8_Over100 ==
    (s_pc = "returned" /\ s_ret.trace.converted
        /\ Len(Strip(s_ret.trace.markdown_content)) <= MIN_MARKDOWN_LEN) =>
            /\ s_ret.none
            /\ ~s_ret.trace.chunked
            /\ s_ret.valid_chunks = <<>>

\* C8 amended: a cleaned result of fewer than 100 stripped characters is
\* never chunked and the call returns None; chunking happens only for 100
\* characters or more.
C8_AtLeast100 ==
    (s_pc = "returned" /\ s_ret.trace.converted) =>
        /\ Len(Strip(s_ret.trace.markdown_content)) < MIN_MARKDOWN_LEN =>
            /\ s_ret.none
            /\ ~s_ret.trace.chunked
            /\ s_ret.valid_chunks = <<>>
        /\ s_ret.trace.chunked =>
            Len(Strip(s_ret.trace.markdown_content)) >= MIN_MARKDOWN_LEN

\* A page of 99 cleaned characters was turned away.
C8_Witness ==
    /\ s_pc = "returned"
    /\ s_ret.trace.converted
    /\ Len(Strip(s_ret.trace.markdown_content)) = MIN_MARKDOWN_LEN - 1
    /\ s_ret.none

(***************************************************************************)
(* SpecClean: clean_markdown_content applied to every input built from at  *)
(* most MaxPieces pieces.                                                  *)
(***************************************************************************)
MaxPieces == 5

CleanPieces ==
    { <<NL>>, <<"*">>, <<"_">>, <<"a">>, <<SP>>, <<"|", "|", "|">>, <<"N", "a", "v">> }

CleanInputs ==
    { Flatten(ps) : ps \in UNION { [1..n -> CleanPieces] : n \in 0..MaxPieces } }

InitClean ==
    /\ cm_pc = "start"
    /\ cm_in \in CleanInputs
    /\ cm_out = <<>>
    /\ ScrapeIdle
    /\ RagIdle
    /\ RunIdle
    /\ BrowserIdle

Clean ==
    /\ cm_pc = "start"
    /\ cm_out' = clean_markdown_content(cm_in)
    /\ cm_pc' = "done"
    /\ UNCHANGED <<cm_in, scrapeVars, ragVars, runVars, browserVars>>

NextClean == Clean

SpecClean == InitClean /\ [][NextClean]_vars

\* C5: the output of clean_markdown_content never contains three or more
\* consecutive newlines, three or more consecutive '*', or three or more
\* consecutive '_'.
C5_NoLongRuns ==
    cm_pc = "done" =>
        /\ ~HasRun3(cm_out, NL)
        /\ ~HasRun3(cm_out, "*")
        /\ ~HasRun3(cm_out, "_")

\* A cleaned input that held a run of three '*' and whose output keeps stars.
C5_Witness ==
    /\ cm_pc = "done"
    /\ HasRun3(cm_in, "*")
    /\ Count(cm_out, "*") >= 2

====
